---- MODULE Spec2Model ----
(***************************************************************************)
(* Album Art Visualizer.                                                   *)
(*                                                                         *)
(* Two independent state machines of the repository are modelled:          *)
(*   - RecentGrid (src/src/components/recentGrid.jsx): the polling effect  *)
(*     and its tile reconciliation (applyNext), specification Spec;        *)
(*   - SpotifyPage (src/src/SpotifyPage.jsx): the OAuth token life cycle   *)
(*     (doExchange, safeRefresh, the refresh effect, login, logout),       *)
(*     specification SpecTLM.                                              *)
(***************************************************************************)
EXTENDS Integers, Sequences, FiniteSets, TLC

(***************************************************************************)
(* Bounds of the model.                                                    *)
(***************************************************************************)
\* reconciliation inputs: album ids 1..NumIds, batches and previous sets
\* of at most MaxFresh and MaxPrev tiles
NumIds == 3
MaxFresh == 2
MaxPrev == 2
\* the maxTiles prop ranges over 1..MaxTilesProp
MaxTilesProp == 2
\* polling: a source returns batches of at most MaxPollFresh tiles
MaxPollFresh == 2
\* timeouts of RecentGrid that can be armed at once
MaxTimers == 2
\* SpotifyPage: the token endpoint issues access tokens 1..NumAccess and
\* refresh tokens 1..NumRefresh; the clock makes at most MaxTicks steps
NumAccess == 2
NumRefresh == 2
MaxTicks == 2
\* array sources of SpecStatic have at most MaxRaw entries
MaxRaw == 2
\* login() assigns window.location.href at most MaxLogins times per page
MaxLogins == 2

(***************************************************************************)
(* Values.                                                                 *)
(***************************************************************************)
Min(a, b) == IF a < b THEN a ELSE b
Max(a, b) == IF a > b THEN a ELSE b

\* A possibly-null JavaScript value is a sequence of length <= 1.
Null == << >>
Some(v) == <<v>>

\* src: a URI is a positive number, null is 0, the empty string is -1.
NullSrc == 0
EmptySrc == -1
\* id: <<"id", n>> an album id, <<"uri", n>> a bare URI string used as id,
\* <<"idx", i>> String(i), <<"placeholder", i>> `placeholder-${i}`,
\* <<"empty", 0>> the empty string.
AlbumId(n) == <<"id", n>>
EmptyId == <<"empty", 0>>

\* The tiles a source can return for albums 1..n: album 1 is known under
\* two cover URIs, every other album under one.
SrcsOf(n) == IF n = 1 THEN {1, 2} ELSE {1}
TilesOf(albums) ==
  UNION {{[id |-> AlbumId(k), src |-> s] : s \in SrcsOf(k)} : k \in albums}

SeqUpTo(S, n) == UNION {[1..k -> S] : k \in 0..n}
Batches == SeqUpTo(TilesOf(1..NumIds), MaxFresh)
\* the albums a polled source has to show
PollAlbums == {1, 2}
PollBatches == SeqUpTo(TilesOf(PollAlbums), MaxPollFresh)

\* retryMs of a SourceResult: absent/null, zero, negative, positive
RetryChoices == {Null, Some(0), Some(-1000), Some(5000)}
\* the pollMs prop (default 10000; SpotifyPage and PlexPage pass 30000)
PollChoices == {10000, 30000}
\* the delay of loop's catch branch
ErrorDelayMs == 30000

IdsOf(s) == {s[i].id : i \in DOMAIN s}
Take(s, n) == SubSeq(s, 1, Min(Len(s), n))

(***************************************************************************)
(* State.                                                                  *)
(***************************************************************************)
VARIABLES
  \* ---- RecentGrid ----
  mounted,    \* "no" before the mount, "yes", "gone" after the unmount
  run,        \* the effect closure that is running:
              \* [pc, stop, kind, maxTiles, pollMs, wait]
  zombies,    \* the stopped closures that still have a continuation pending
  prevRef,    \* prevRef.current
  tiles,      \* the React state `tiles`
  timerRef,   \* timerRef.current: 0 is null, otherwise a timeout handle
  armed,      \* armed timeouts: records [h, ms, closure]
  emitted,    \* Null, or Some([tiles, maxTiles, stopped]): the list the
              \* last step gave to setTiles/onTiles, the maxTiles of the
              \* closure that gave it and that closure's stop
  applied     \* Null, or Some([fresh, prev, maxTiles]): the applyNext call
              \* of the last step (recorded by Reconcile only)

gvars == <<mounted, run, zombies, prevRef, tiles, timerRef, armed, emitted,
           applied>>

VARIABLES
  \* ---- SpotifyPage ----
  page,           \* "closed", or "open": a SpotifyPage instance is mounted
  url,            \* [code, state]: the query parameters of location.href
  spotify_token,  \* localStorage key spotify_token: Null or Some(token)
  pkce_state,     \* localStorage key pkce_state
  pkce_verifier,  \* localStorage key pkce_verifier
  token,          \* the React state `token`
  refreshingRef,  \* refreshingRef.current
  error,          \* the React state `error`
  pending,        \* the token-endpoint requests awaited by this page
  handle,         \* the timeout of the refresh effect: Null or Some([t, due])
  now,            \* Date.now()
  loggedOut,      \* logout() has run and no code exchange succeeded since
  observed        \* Null, or what the last step did: a safeRefresh call
                  \* [op, busy, sent] or a failed refresh
                  \* [op, failure, stored, held]

tvars == <<page, url, spotify_token, pkce_state, pkce_verifier, token,
           refreshingRef, error, pending, handle, now, loggedOut, observed>>
vars == <<gvars, tvars>>

(***************************************************************************)
(* RecentGrid: pure functions.                                             *)
(***************************************************************************)
\* sameTiles comparing the two lists as sets
sameTilesUnordered(a, b) ==
  /\ Len(a) = Len(b)
  /\ {a[i] : i \in DOMAIN a} = {b[i] : i \in DOMAIN b}

\* sameTiles(a, b): same length and the same id and src at every index
sameTiles(a, b) ==
  /\ Len(a) = Len(b)
  /\ \A i \in 1..Len(a) : a[i].id = b[i].id /\ a[i].src = b[i].src

\* the for loop without its test of `seen`
RECURSIVE backfillNoSeen(_, _, _, _, _)
backfillNoSeen(next, seen, prev, i, maxTiles) ==
  IF i > Len(prev) THEN next
  ELSE IF Len(next) >= maxTiles THEN next
  ELSE backfillNoSeen(Append(next, prev[i]), seen, prev, i + 1, maxTiles)

\* the for loop of applyNext over prevRef.current, from index i on
RECURSIVE backfill(_, _, _, _, _)
backfill(next, seen, prev, i, maxTiles) ==
  IF i > Len(prev) THEN next
  ELSE IF Len(next) >= maxTiles THEN next
  ELSE IF prev[i].id \notin seen
    THEN backfill(Append(next, prev[i]), seen \cup {prev[i].id}, prev, i + 1, maxTiles)
    ELSE backfill(next, seen, prev, i + 1, maxTiles)

\* the list `next` that applyNext(fresh) computes against prevRef.current
applyNext(fresh, prev, maxTiles) ==
  LET seen == IdsOf(fresh)
      next == Take(fresh, maxTiles)
  IN IF Len(next) < maxTiles /\ Len(prev) > 0
       THEN backfill(next, seen, prev, 1, maxTiles)
       ELSE next

\* the placeholder pushed at slots.length = i
placeholder(i) == [id |-> <<"placeholder", i>>, src |-> NullSrc]

\* the while loop of the render: push placeholders up to maxTiles
RECURSIVE padSlots(_, _)
padSlots(sl, maxTiles) ==
  IF Len(sl) < maxTiles
    THEN padSlots(Append(sl, placeholder(Len(sl))), maxTiles)
    ELSE sl

\* slots without the while loop
slotsUnpadded(ts, maxTiles) == Take(ts, maxTiles)

\* the render's `slots`: tiles.slice(0, maxTiles), then the while loop
slots(ts, maxTiles) == padSlots(Take(ts, maxTiles), maxTiles)

\* the entries of an array source: a bare string, or an object whose id
\* and src may be missing (Null)
RawString(u) == [str |-> TRUE, id |-> Null, src |-> Some(u)]
RawObject(id, src) == [str |-> FALSE, id |-> id, src |-> src]
\* the array sources the component is given
StaticArrays ==
  {<< >>,
   <<RawString(2)>>,
   <<RawObject(Some(AlbumId(1)), Some(1)), RawObject(Some(AlbumId(2)), Null)>>,
   <<RawString(2), RawObject(Some(AlbumId(1)), Some(1)), RawObject(Some(AlbumId(2)), Some(1))>>}

\* the map callback of normalizeArraySource at (0-based) index i
normalizeEntry(v, i) ==
  IF v.str THEN [id |-> <<"uri", v.src[1]>>, src |-> v.src[1]]
  ELSE [id |-> IF v.id = Null THEN <<"idx", i>> ELSE v.id[1],
        src |-> IF v.src = Null THEN EmptySrc ELSE v.src[1]]

\* the filter callback: t.id && t.src
truthyTile(t) == t.id # EmptyId /\ t.src # EmptySrc /\ t.src # NullSrc

normalizeArraySource(arr) ==
  LET mapped == [i \in 1..Len(arr) |-> normalizeEntry(arr[i], i - 1)]
  IN SelectSeq(mapped, truthyTile)

(***************************************************************************)
(* RecentGrid: the polling effect (useEffect of recentGrid.jsx).           *)
(*                                                                         *)
(* Every run of the effect creates a closure with its own `stop` and its   *)
(* own captured source, pollMs and maxTiles.  pc of a closure:             *)
(*   "none"      no closure (before the mount, after the unmount)          *)
(*   "idle"      nothing of it is pending, apart from a timeout            *)
(*   "fetching"  fetchOnce awaits source()                                 *)
(*   "returned"  fetchOnce has returned `wait`; loop's continuation after  *)
(*               `await fetchOnce()` has not run yet                       *)
(* `run` is the closure of the effect's last run.  A closure whose cleanup *)
(* has run (stop = true) and that still has a continuation pending is a    *)
(* zombie.  Any number of zombies can exist (every change of the props     *)
(* during a fetch leaves one), they differ only in pc and maxTiles, and a  *)
(* stopped closure reads nothing else; `zombies` is the set of the         *)
(* [pc, maxTiles] for which at least one zombie exists.  A step of a       *)
(* zombie removes its element (it was the last of its kind) or keeps it.   *)
(***************************************************************************)
Kinds == {"array", "function", "other"}
\* the props the effect depends on; pollMs is read for a function or other
\* source only, arr is the array of an array source
ConfigsWith(polls) ==
  [kind : {"function", "other"}, maxTiles : 1..MaxTilesProp,
   pollMs : polls, arr : {<< >>}]
  \cup [kind : {"array"}, maxTiles : 1..MaxTilesProp,
        pollMs : {10000}, arr : StaticArrays]

NoClosure ==
  [pc |-> "none", stop |-> FALSE, kind |-> "other", maxTiles |-> 1,
   pollMs |-> 10000, wait |-> Null]

NewClosure(cfg) ==
  [pc |-> "idle", stop |-> FALSE, kind |-> cfg.kind, maxTiles |-> cfg.maxTiles,
   pollMs |-> cfg.pollMs, wait |-> Null]

\* a zombie as a closure
ZombieClosure(z) ==
  [pc |-> z.pc, stop |-> TRUE, kind |-> "function", maxTiles |-> z.maxTiles,
   pollMs |-> 10000, wait |-> Null]
\* the zombie a closure with a pending continuation becomes at its cleanup
ZombieOf(c) ==
  [pc |-> c.pc, maxTiles |-> IF c.pc = "fetching" THEN c.maxTiles ELSE 1]
Zombies == [pc : {"fetching", "returned"}, maxTiles : 1..MaxTilesProp]

\* setTimeout's return value: a handle no armed timeout has
Handles == 1..MaxTimers
FreeHandle(arm) ==
  CHOOSE h \in Handles :
    /\ h \notin {t.h : t \in arm}
    /\ \A g \in 1..(h - 1) : g \in {t.h : t \in arm}

\* clearTimer (lines 61-66): the armed set after clearTimeout(timerRef.current)
clearTimer(arm, ref) == {t \in arm : t.h # ref}

\* applyNext(fresh) called by closure c: the writes of lines 54-58
ApplyNextStep(c, fresh, isMounted) ==
  LET next == applyNext(fresh, prevRef, c.maxTiles)
  IN IF ~sameTiles(prevRef, next)
       THEN /\ prevRef' = next
            /\ tiles' = IF isMounted = "yes" THEN next ELSE tiles
            /\ emitted' = Some([tiles |-> next, maxTiles |-> c.maxTiles,
                                stopped |-> c.stop])
       ELSE /\ UNCHANGED <<prevRef, tiles>>
            /\ emitted' = Null


\* fetchOnce that shows an array source on its own, without the stable set
\* of before
FetchOnceStartArrayAlone(c, arr, isMounted) ==
  CASE c.kind = "array" ->
         LET st == Take(normalizeArraySource(arr), c.maxTiles)
         IN /\ prevRef' = st
            /\ tiles' = IF isMounted = "yes" THEN st ELSE tiles
            /\ emitted' = IF sameTiles(prevRef, st)
                            THEN Null
                            ELSE Some([tiles |-> st, maxTiles |-> c.maxTiles,
                                       stopped |-> c.stop])
    [] c.kind = "function" ->
         /\ emitted' = Null
         /\ UNCHANGED <<prevRef, tiles>>
    [] OTHER ->
         ApplyNextStep(c, << >>, isMounted)

\* fetchOnce of closure c up to its first await (function source) or to
\* its return (array, other): the pc it reaches, with the writes of applyNext
FetchOnceStart(c, arr, isMounted) ==
  CASE c.kind = "array" ->
         ApplyNextStep(c, Take(normalizeArraySource(arr), c.maxTiles), isMounted)
    [] c.kind = "function" ->
         /\ emitted' = Null
         /\ UNCHANGED <<prevRef, tiles>>
    [] OTHER ->
         ApplyNextStep(c, << >>, isMounted)
PcAfterStart(c) == IF c.kind = "function" THEN "fetching" ELSE "returned"

\* the cleanup without clearTimer
CleanupTimersKeep(arm, ref) == {[t EXCEPT !.closure.stop = TRUE] : t \in arm}

\* the timeouts after the cleanup (lines 109-112): the one timerRef holds
\* is cleared, any other stays armed and its closure is stopped
CleanupTimers(arm, ref) ==
  {[t EXCEPT !.closure.stop = TRUE] : t \in clearTimer(arm, ref)}
\* the zombies after the cleanup of the running closure
CleanupZombies(c) ==
  IF c.pc \in {"fetching", "returned"} THEN zombies \cup {ZombieOf(c)} ELSE zombies

\* first render and first run of the effect
Mount(cfg) ==
  /\ mounted = "no"
  /\ mounted' = "yes"
  /\ FetchOnceStart(NewClosure(cfg), cfg.arr, "yes")
  /\ run' = [NewClosure(cfg) EXCEPT !.pc = PcAfterStart(NewClosure(cfg))]
  /\ UNCHANGED <<zombies, timerRef, armed, applied>>

\* source, pollMs, maxTiles or onTiles changed: cleanup of the running
\* closure (lines 109-112), then the effect runs again in a new closure
Reconfigure(cfg) ==
  /\ mounted = "yes"
  /\ zombies' = CleanupZombies(run)
  /\ armed' = CleanupTimers(armed, timerRef)
  /\ timerRef' = 0
  /\ FetchOnceStart(NewClosure(cfg), cfg.arr, "yes")
  /\ run' = [NewClosure(cfg) EXCEPT !.pc = PcAfterStart(NewClosure(cfg))]
  /\ UNCHANGED <<mounted, applied>>

\* the component unmounts: cleanup only
Unmount ==
  /\ mounted = "yes"
  /\ mounted' = "gone"
  /\ zombies' = CleanupZombies(run)
  /\ run' = NoClosure
  /\ armed' = CleanupTimers(armed, timerRef)
  /\ timerRef' = 0
  /\ tiles' = << >>
  /\ emitted' = Null
  /\ UNCHANGED <<prevRef, applied>>

\* what a function source resolves with: {tiles, retryMs}
ResultsWith(batches, retries) == [tiles : batches, retryMs : retries]

\* the stop test of schedule: line 69
scheduleStopped(c) == c.stop

\* schedule(ms) of closure c: lines 68-72
schedule(c, ms) ==
  IF scheduleStopped(c)
    THEN UNCHANGED <<timerRef, armed>>
    ELSE /\ Cardinality(clearTimer(armed, timerRef)) < MaxTimers
         /\ armed' = clearTimer(armed, timerRef)
                       \cup {[h |-> FreeHandle(clearTimer(armed, timerRef)),
                              ms |-> Max(0, ms),
                              closure |-> [c EXCEPT !.pc = "idle", !.wait = Null]]}
         /\ timerRef' = FreeHandle(clearTimer(armed, timerRef))

\* the stop test of loop after its await: lines 96 and 103
loopStopped(c) == c.stop

\* loop after `await fetchOnce()` without the test of line 99
LoopAfterFetchPolls(c, wait) ==
  IF loopStopped(c)
    THEN UNCHANGED <<timerRef, armed>>
    ELSE schedule(c, IF wait = Null THEN c.pollMs ELSE wait[1])

\* loop of closure c after `await fetchOnce()` returned wait: lines 96-101
LoopAfterFetch(c, wait) ==
  IF loopStopped(c) \/ c.kind = "array"
    THEN UNCHANGED <<timerRef, armed>>
    ELSE schedule(c, IF wait = Null THEN c.pollMs ELSE wait[1])

\* loop's catch scheduling after pollMs
LoopCatchPoll(c) ==
  IF loopStopped(c)
    THEN UNCHANGED <<timerRef, armed>>
    ELSE schedule(c, c.pollMs)

\* loop's catch: lines 102-105
LoopCatch(c) ==
  IF loopStopped(c)
    THEN UNCHANGED <<timerRef, armed>>
    ELSE schedule(c, ErrorDelayMs)

\* source() of the running closure resolves: fetchOnce continues at line
\* 83, calls applyNext and returns retryMs
SourceResolve(r) ==
  /\ run.pc = "fetching"
  /\ ApplyNextStep(run, r.tiles, mounted)
  /\ run' = [run EXCEPT !.pc = "returned", !.wait = r.retryMs]
  /\ UNCHANGED <<mounted, zombies, timerRef, armed, applied>>

\* a rejection that blanks the tiles
SourceRejectBlank ==
  /\ run.pc = "fetching"
  /\ run' = [run EXCEPT !.pc = "idle"]
  /\ LoopCatch(run)
  /\ prevRef' = << >>
  /\ tiles' = << >>
  /\ emitted' = Some([tiles |-> << >>, maxTiles |-> run.maxTiles,
                      stopped |-> run.stop])
  /\ UNCHANGED <<mounted, zombies, applied>>

\* source() of the running closure rejects: fetchOnce rejects and loop's
\* catch runs
SourceReject ==
  /\ run.pc = "fetching"
  /\ run' = [run EXCEPT !.pc = "idle"]
  /\ LoopCatch(run)
  /\ emitted' = Null
  /\ UNCHANGED <<mounted, zombies, prevRef, tiles, applied>>

\* loop of the running closure continues after `await fetchOnce()`
LoopResume ==
  /\ run.pc = "returned"
  /\ run' = [run EXCEPT !.pc = "idle", !.wait = Null]
  /\ LoopAfterFetch(run, run.wait)
  /\ emitted' = Null
  /\ UNCHANGED <<mounted, zombies, prevRef, tiles, applied>>

\* the same three continuations in a zombie z; `last` tells whether z was
\* the last zombie of its kind
ZombieResolve(z, r, last) ==
  /\ z \in zombies /\ z.pc = "fetching"
  /\ ApplyNextStep(ZombieClosure(z), r.tiles, mounted)
  /\ zombies' = (IF last THEN zombies \ {z} ELSE zombies)
                   \cup {[pc |-> "returned", maxTiles |-> 1]}
  /\ UNCHANGED <<mounted, run, timerRef, armed, applied>>

ZombieReject(z, last) ==
  /\ z \in zombies /\ z.pc = "fetching"
  /\ zombies' = IF last THEN zombies \ {z} ELSE zombies
  /\ LoopCatch(ZombieClosure(z))
  /\ emitted' = Null
  /\ UNCHANGED <<mounted, run, prevRef, tiles, applied>>

ZombieResume(z, last) ==
  /\ z \in zombies /\ z.pc = "returned"
  /\ zombies' = IF last THEN zombies \ {z} ELSE zombies
  /\ LoopAfterFetch(ZombieClosure(z), Null)
  /\ emitted' = Null
  /\ UNCHANGED <<mounted, run, prevRef, tiles, applied>>

\* an armed timeout fires: loop() of its closure runs (no stop test before
\* fetchOnce)
TimerFire(t) ==
  /\ t \in armed
  /\ armed' = armed \ {t}
  /\ FetchOnceStart(t.closure, << >>, mounted)
  /\ IF t.closure.stop
       THEN /\ zombies' = zombies \cup
                 {ZombieOf([t.closure EXCEPT !.pc = PcAfterStart(t.closure)])}
            /\ UNCHANGED run
       ELSE /\ run' = [run EXCEPT !.pc = PcAfterStart(run)]
            /\ UNCHANGED zombies
  /\ UNCHANGED <<mounted, timerRef, applied>>

GridInit ==
  /\ mounted = "no"
  /\ run = NoClosure
  /\ zombies = {}
  /\ prevRef = << >>
  /\ tiles = << >>
  /\ timerRef = 0
  /\ armed = {}
  /\ emitted = Null
  /\ applied = Null

\* no SpotifyPage is open and localStorage is empty
TokenIdle ==
  /\ page = "closed"
  /\ url = [code |-> Null, state |-> Null]
  /\ spotify_token = Null
  /\ pkce_state = Null
  /\ pkce_verifier = Null
  /\ token = Null
  /\ refreshingRef = FALSE
  /\ error = Null
  /\ pending = << >>
  /\ handle = Null
  /\ now = 0
  /\ loggedOut = FALSE
  /\ observed = Null

Init == GridInit /\ TokenIdle

(***************************************************************************)
(* Spec: RecentGrid with sources that return every batch of PollBatches;   *)
(* pollMs is the default and no source returns a retryMs.                  *)
(***************************************************************************)
TileConfigs == ConfigsWith({10000})
TileResults == ResultsWith(PollBatches, {Null})

DoMount == (\E cfg \in TileConfigs : Mount(cfg)) /\ UNCHANGED tvars
DoReconfigure == (\E cfg \in TileConfigs : Reconfigure(cfg)) /\ UNCHANGED tvars
DoUnmount == Unmount /\ UNCHANGED tvars
DoSourceResolve == (\E r \in TileResults : SourceResolve(r)) /\ UNCHANGED tvars
DoSourceReject == SourceReject /\ UNCHANGED tvars
DoLoopResume == LoopResume /\ UNCHANGED tvars
DoZombieResolve ==
  /\ \E z \in zombies, r \in TileResults, last \in BOOLEAN : ZombieResolve(z, r, last)
  /\ UNCHANGED tvars
DoZombieReject ==
  /\ \E z \in zombies, last \in BOOLEAN : ZombieReject(z, last)
  /\ UNCHANGED tvars
DoZombieResume ==
  /\ \E z \in zombies, last \in BOOLEAN : ZombieResume(z, last)
  /\ UNCHANGED tvars
DoTimerFire == (\E t \in armed : TimerFire(t)) /\ UNCHANGED tvars

Next ==
  \/ DoMount
  \/ DoReconfigure
  \/ DoUnmount
  \/ DoSourceResolve
  \/ DoSourceReject
  \/ DoLoopResume
  \/ DoZombieResolve
  \/ DoZombieReject
  \/ DoZombieResume
  \/ DoTimerFire

Spec == Init /\ [][Next]_vars

(***************************************************************************)
(* SpecPoll: the scheduling of RecentGrid.  The pollMs prop and the        *)
(* retryMs of a result vary; the batches are those of one album.           *)
(***************************************************************************)
PollConfigs == ConfigsWith(PollChoices)
PollResults == ResultsWith(SeqUpTo(TilesOf({1}), 1), RetryChoices)

PollMount == (\E cfg \in PollConfigs : Mount(cfg)) /\ UNCHANGED tvars
PollReconfigure == (\E cfg \in PollConfigs : Reconfigure(cfg)) /\ UNCHANGED tvars
PollSourceResolve == (\E r \in PollResults : SourceResolve(r)) /\ UNCHANGED tvars
PollZombieResolve ==
  /\ \E z \in zombies, r \in PollResults, last \in BOOLEAN : ZombieResolve(z, r, last)
  /\ UNCHANGED tvars

PollNext ==
  \/ PollMount
  \/ PollReconfigure
  \/ DoUnmount
  \/ PollSourceResolve
  \/ DoSourceReject
  \/ DoLoopResume
  \/ PollZombieResolve
  \/ DoZombieReject
  \/ DoZombieResume
  \/ DoTimerFire

SpecPoll == Init /\ [][PollNext]_vars

(***************************************************************************)
(* SpecStatic: the first run of the effect with an array source, for every *)
(* array of at most MaxRaw entries: strings (empty or not) and objects     *)
(* whose id and src are missing, empty or present.  The step records the   *)
(* array.                                                                  *)
(***************************************************************************)
RawEntries ==
  {RawString(u) : u \in {EmptySrc, 1, 2}}
  \cup {RawObject(id, src) : id \in {Null, Some(EmptyId), Some(AlbumId(1))},
                             src \in {Null, Some(EmptySrc), Some(1)}}
RawArrays == SeqUpTo(RawEntries, MaxRaw)
StaticConfigs ==
  [kind : {"array"}, maxTiles : 1..MaxTilesProp, pollMs : {10000}, arr : RawArrays]

MountStatic(cfg) ==
  /\ mounted = "no"
  /\ mounted' = "yes"
  /\ FetchOnceStart(NewClosure(cfg), cfg.arr, "yes")
  /\ run' = [NewClosure(cfg) EXCEPT !.pc = PcAfterStart(NewClosure(cfg))]
  /\ applied' = Some([arr |-> cfg.arr, maxTiles |-> cfg.maxTiles])
  /\ UNCHANGED <<zombies, timerRef, armed>>

DoMountStatic == (\E cfg \in StaticConfigs : MountStatic(cfg)) /\ UNCHANGED tvars

StaticNext ==
  \/ DoMountStatic
  \/ DoLoopResume
  \/ DoUnmount

SpecStatic == Init /\ [][StaticNext]_vars

(***************************************************************************)
(* SpecReconcile: applyNext as a function of (fresh, previous, maxTiles).  *)
(* The running closure awaits its source with any maxTiles and any stable  *)
(* set the component can hold; every step is one call applyNext(fresh)     *)
(* (line 84) and records its arguments.                                    *)
(***************************************************************************)
ReconcileInit ==
  /\ mounted = "yes"
  /\ \E mt \in 1..MaxTilesProp :
       run = [NewClosure([kind |-> "function", maxTiles |-> mt, pollMs |-> 10000])
                EXCEPT !.pc = "fetching"]
  /\ zombies = {}
  /\ prevRef \in SeqUpTo(TilesOf(1..NumIds), MaxPrev)
  /\ tiles = prevRef
  /\ timerRef = 0
  /\ armed = {}
  /\ emitted = Null
  /\ applied = Null
  /\ TokenIdle

Reconcile(fresh) ==
  /\ run.pc = "fetching"
  /\ ApplyNextStep(run, fresh, mounted)
  /\ applied' = Some([fresh |-> fresh, prev |-> prevRef, maxTiles |-> run.maxTiles])
  /\ UNCHANGED <<mounted, run, zombies, timerRef, armed>>

DoReconcile == (\E fresh \in Batches : Reconcile(fresh)) /\ UNCHANGED tvars

ReconcileNext == DoReconcile

SpecReconcile == ReconcileInit /\ [][ReconcileNext]_vars

(***************************************************************************)
(* SpotifyPage: the token life cycle.                                      *)
(*                                                                         *)
(* A token is a record [access_token, refresh_token, expires_in,           *)
(* expires_at, received_at]; a member the object lacks is Null.  Times are *)
(* milliseconds.  A re-render and the effects it flushes are part of the   *)
(* step that called setToken.                                              *)
(***************************************************************************)
\* the skew of isTokenFresh and of the refresh effect
SkewMs == 60000
\* the step of the clock
TickMs == SkewMs
\* expires_in of a token-endpoint response, in seconds
ExpiresInChoices == {60, 120}
\* the state values login() draws
PkceStates == {1, 2}

\* a 200 response of the token endpoint to a code exchange: a token, or a
\* JSON body without the token members
ExchangeBodies ==
  {[access_token |-> Some(a), refresh_token |-> Some(r), expires_in |-> Some(e)] :
     a \in 1..NumAccess, r \in 1..NumRefresh, e \in ExpiresInChoices}
  \cup {[access_token |-> Null, refresh_token |-> Null, expires_in |-> Null]}
\* a 200 response to a refresh: the refresh token is rotated or left out
RefreshBodies ==
  {[access_token |-> Some(a), refresh_token |-> r, expires_in |-> Some(e)] :
     a \in 1..NumAccess, r \in {Null} \cup {Some(n) : n \in 1..NumRefresh},
     e \in ExpiresInChoices}
\* a failed request: an HTTP status with the error of its body, or (status
\* 0) a fetch that rejects
Failures ==
  {[status |-> 400, error |-> "invalid_grant"],
   [status |-> 500, error |-> "server_error"],
   [status |-> 0, error |-> "network"]}

\* e.message of tokenFromAuthCode / refreshToken: the body is never read
Message(what, f) == IF f.status = 0 THEN <<"Failed to fetch">> ELSE <<what, f.status>>

\* the token a page of this origin left in localStorage: received at
\* time 0, due for refresh from then on
StoredToken ==
  [access_token |-> Some(1), refresh_token |-> Some(1), expires_in |-> Some(60),
   expires_at |-> Some(60 * 1000), received_at |-> 0]


\* isTokenFresh with <= for <
isTokenFreshAtSkew(t, skewMs, clock) ==
  /\ t # Null
  /\ t[1].access_token # Null
  /\ t[1].expires_at # Null
  /\ clock <= t[1].expires_at[1] - skewMs

isTokenFresh(t, skewMs, clock) ==
  /\ t # Null
  /\ t[1].access_token # Null
  /\ t[1].expires_at # Null
  /\ clock < t[1].expires_at[1] - skewMs

signedIn(t) == t # Null /\ (t[1].access_token # Null \/ t[1].refresh_token # Null)

\* the dependencies of the refresh effect
depsOf(t) == IF t = Null THEN <<Null, Null>> ELSE <<t[1].refresh_token, t[1].expires_at>>

\* the delay of the refresh effect's timeout
delay(t, clock) ==
  IF t[1].expires_at = Null THEN 0 ELSE Max(0, t[1].expires_at[1] - clock - SkewMs)

\* safeRefresh without refreshingRef
safeRefreshSkipsNoRef(ref, t) == t = Null \/ t[1].refresh_token = Null

\* the first line of safeRefresh: the call returns null and does nothing
safeRefreshSkips(ref, t) == ref \/ t = Null \/ t[1].refresh_token = Null

HasRefresh(reqs) == \E i \in DOMAIN reqs : reqs[i].kind = "refresh"
Without(reqs, i) == SubSeq(reqs, 1, i - 1) \o SubSeq(reqs, i + 1, Len(reqs))

\* a call safeRefresh(t) up to its await, with refreshingRef = ref and the
\* requests reqs pending
safeRefreshCall(t, ref, reqs) ==
  /\ refreshingRef' = (ref \/ ~safeRefreshSkips(ref, t))
  /\ pending' = IF safeRefreshSkips(ref, t)
                  THEN reqs
                  ELSE Append(reqs, [kind |-> "refresh", t |-> t])
  /\ observed' = Some([op |-> "safeRefresh", busy |-> HasRefresh(reqs),
                       sent |-> Len(pending') - Len(reqs)])


\* the refresh effect without its top-up: only the timeout is armed
refreshEffectTimerOnly(t, ref, reqs) ==
  /\ refreshingRef' = ref
  /\ pending' = reqs
  /\ observed' = Null
  /\ handle' = IF t = Null \/ t[1].refresh_token = Null
                 THEN Null
                 ELSE Some([t |-> t, due |-> now + delay(t, now)])

\* the refresh effect run for the token t (its cleanup has cleared the
\* timeout of the run before)
refreshEffect(t, ref, reqs) ==
  IF t = Null \/ t[1].refresh_token = Null
    THEN /\ refreshingRef' = ref
         /\ pending' = reqs
         /\ handle' = Null
         /\ observed' = Null
    ELSE /\ IF ~isTokenFresh(t, SkewMs, now)
              THEN safeRefreshCall(t, ref, reqs)
              ELSE /\ refreshingRef' = ref
                   /\ pending' = reqs
                   /\ observed' = Null
         /\ handle' = Some([t |-> t, due |-> now + delay(t, now)])


\* a render after setToken(t) that leaves the effect of the render before
\* in place: no cleanup, no new run
RerenderKeepsEffect(old, t, ref, reqs) ==
  /\ refreshingRef' = ref
  /\ pending' = reqs
  /\ observed' = Null
  /\ UNCHANGED handle

\* the render after setToken(t): the refresh effect runs again when its
\* dependencies changed
Rerender(old, t, ref, reqs) ==
  IF depsOf(t) # depsOf(old)
    THEN refreshEffect(t, ref, reqs)
    ELSE /\ refreshingRef' = ref
         /\ pending' = reqs
         /\ observed' = Null
         /\ UNCHANGED handle

\* doExchange without the comparison of the states
doExchangeSendsAnyState(code, state) ==
  ~(code = Null \/ pkce_verifier = Null)

\* doExchange goes on to tokenFromAuthCode
doExchangeSends(code, state) ==
  ~(code = Null \/ pkce_verifier = Null \/ state # pkce_state)

\* the page is opened at a URL: the state is initialised and the mount
\* effects run (doExchange, then the refresh effect)
Load(code, state) ==
  /\ page = "closed"
  /\ page' = "open"
  /\ url' = [code |-> code, state |-> state]
  /\ token' = spotify_token
  /\ error' = Null
  /\ refreshEffect(spotify_token, FALSE,
                   IF doExchangeSends(code, state)
                     THEN <<[kind |-> "exchange", t |-> Null]>>
                     ELSE << >>)
  /\ UNCHANGED <<spotify_token, pkce_state, pkce_verifier, now, loggedOut>>

\* what is left of a page that is closed or navigated away from
PageGone ==
  /\ page' = "closed"
  /\ token' = Null
  /\ refreshingRef' = FALSE
  /\ error' = Null
  /\ pending' = << >>
  /\ handle' = Null
  /\ observed' = Null

Close ==
  /\ page = "open"
  /\ PageGone
  /\ UNCHANGED <<url, spotify_token, pkce_state, pkce_verifier, now, loggedOut>>

\* the Connect button (rendered when token is falsy): login() stores the
\* PKCE state and verifier and leaves for the authorization endpoint
login(state) ==
  /\ page = "open"
  /\ token = Null
  /\ pkce_state' = Some(state)
  /\ pkce_verifier' = Some(1)
  /\ PageGone
  /\ url' = [code |-> Null, state |-> Null]
  /\ UNCHANGED <<spotify_token, now, loggedOut>>


\* logout() without its store.del: only the state is reset
logoutKeepsStore ==
  /\ page = "open"
  /\ token # Null
  /\ ~signedIn(token)
  /\ token' = Null
  /\ loggedOut' = TRUE
  /\ Rerender(token, Null, refreshingRef, pending)
  /\ UNCHANGED <<page, url, spotify_token, pkce_state, pkce_verifier, error,
                 now>>

\* the Disconnect button (rendered when token is truthy and signedIn is
\* false): logout()
logout ==
  /\ page = "open"
  /\ token # Null
  /\ ~signedIn(token)
  /\ spotify_token' = Null
  /\ token' = Null
  /\ loggedOut' = TRUE
  /\ Rerender(token, Null, refreshingRef, pending)
  /\ UNCHANGED <<page, url, pkce_state, pkce_verifier, error, now>>

\* doExchange after its await, leaving the PKCE keys in the store
ExchangeResolveKeepsPkce(i, tok) ==
  /\ page = "open"
  /\ i \in DOMAIN pending
  /\ pending[i].kind = "exchange"
  /\ LET payload ==
           [access_token |-> tok.access_token,
            refresh_token |-> tok.refresh_token,
            expires_in |-> tok.expires_in,
            received_at |-> now,
            expires_at |-> IF tok.expires_in = Null
                             THEN Null
                             ELSE Some(now + tok.expires_in[1] * 1000)]
     IN /\ spotify_token' = Some(payload)
        /\ token' = Some(payload)
        /\ Rerender(token, Some(payload), refreshingRef, Without(pending, i))
  /\ url' = [code |-> Null, state |-> Null]
  /\ loggedOut' = FALSE
  /\ UNCHANGED <<page, error, now, pkce_state, pkce_verifier>>

\* tokenFromAuthCode resolves with the body tok
ExchangeResolve(i, tok) ==
  /\ page = "open"
  /\ i \in DOMAIN pending
  /\ pending[i].kind = "exchange"
  /\ LET payload ==
           [access_token |-> tok.access_token,
            refresh_token |-> tok.refresh_token,
            expires_in |-> tok.expires_in,
            received_at |-> now,
            expires_at |-> IF tok.expires_in = Null
                             THEN Null
                             ELSE Some(now + tok.expires_in[1] * 1000)]
     IN /\ spotify_token' = Some(payload)
        /\ token' = Some(payload)
        /\ Rerender(token, Some(payload), refreshingRef, Without(pending, i))
  /\ pkce_state' = Null
  /\ pkce_verifier' = Null
  /\ url' = [code |-> Null, state |-> Null]
  /\ loggedOut' = FALSE
  /\ UNCHANGED <<page, error, now>>


\* the catch block of doExchange without its setError
ExchangeRejectSilent(i, f) ==
  /\ page = "open"
  /\ i \in DOMAIN pending
  /\ pending[i].kind = "exchange"
  /\ pending' = Without(pending, i)
  /\ observed' = Null
  /\ UNCHANGED <<page, url, spotify_token, pkce_state, pkce_verifier, token,
                 refreshingRef, error, handle, now, loggedOut>>

\* tokenFromAuthCode throws
ExchangeReject(i, f) ==
  /\ page = "open"
  /\ i \in DOMAIN pending
  /\ pending[i].kind = "exchange"
  /\ error' = Some(Message("Token exchange failed", f))
  /\ pending' = Without(pending, i)
  /\ observed' = Null
  /\ UNCHANGED <<page, url, spotify_token, pkce_state, pkce_verifier, token,
                 refreshingRef, handle, now, loggedOut>>


\* safeRefresh(t) after its await, taking refresh_token from the body alone
RefreshResolveBodyOnly(i, rt) ==
  /\ page = "open"
  /\ i \in DOMAIN pending
  /\ pending[i].kind = "refresh"
  /\ LET newTok ==
           [access_token |-> rt.access_token,
            refresh_token |-> rt.refresh_token,
            expires_in |-> rt.expires_in,
            received_at |-> now,
            expires_at |-> Some(now + rt.expires_in[1] * 1000)]
     IN /\ spotify_token' = Some(newTok)
        /\ token' = Some(newTok)
        /\ Rerender(token, Some(newTok), FALSE, Without(pending, i))
  /\ UNCHANGED <<page, url, pkce_state, pkce_verifier, error, now, loggedOut>>

\* safeRefresh(t) after its await: refreshToken resolved with the body rt
RefreshResolve(i, rt) ==
  /\ page = "open"
  /\ i \in DOMAIN pending
  /\ pending[i].kind = "refresh"
  /\ LET t == pending[i].t[1]
         newTok ==
           [access_token |-> rt.access_token,
            refresh_token |-> IF rt.refresh_token # Null
                                THEN rt.refresh_token
                                ELSE t.refresh_token,
            expires_in |-> rt.expires_in,
            received_at |-> now,
            expires_at |-> Some(now + rt.expires_in[1] * 1000)]
     IN /\ spotify_token' = Some(newTok)
        /\ token' = Some(newTok)
        /\ Rerender(token, Some(newTok), FALSE, Without(pending, i))
  /\ UNCHANGED <<page, url, pkce_state, pkce_verifier, error, now, loggedOut>>

\* the catch block of safeRefresh, with the token deleted
safeRefreshCatchLogout(f) ==
  /\ error' = Some(<<"Refresh error", Message("Refresh failed", f)>>)
  /\ spotify_token' = Null
  /\ token' = Null

\* the catch block of safeRefresh
safeRefreshCatch(f) ==
  /\ error' = Some(<<"Refresh error", Message("Refresh failed", f)>>)
  /\ UNCHANGED <<spotify_token, token>>


\* safeRefresh(t) after refreshToken threw, without the finally block
RefreshRejectKeepsMarker(i, f) ==
  /\ page = "open"
  /\ i \in DOMAIN pending
  /\ pending[i].kind = "refresh"
  /\ safeRefreshCatch(f)
  /\ pending' = Without(pending, i)
  /\ observed' = Some([op |-> "refreshFailed", failure |-> f,
                       stored |-> spotify_token, held |-> token])
  /\ UNCHANGED <<page, url, pkce_state, pkce_verifier, handle, now, loggedOut,
                 refreshingRef>>

\* safeRefresh(t) after its await: refreshToken threw
RefreshReject(i, f) ==
  /\ page = "open"
  /\ i \in DOMAIN pending
  /\ pending[i].kind = "refresh"
  /\ safeRefreshCatch(f)
  /\ refreshingRef' = FALSE
  /\ pending' = Without(pending, i)
  /\ observed' = Some([op |-> "refreshFailed", failure |-> f,
                       stored |-> spotify_token, held |-> token])
  /\ UNCHANGED <<page, url, pkce_state, pkce_verifier, handle, now, loggedOut>>

\* the timeout of the refresh effect fires: safeRefresh(token) with the
\* token of the render that armed it
RefreshTimerFire ==
  /\ page = "open"
  /\ handle # Null
  /\ handle[1].due <= now
  /\ safeRefreshCall(handle[1].t, refreshingRef, pending)
  /\ handle' = Null
  /\ UNCHANGED <<page, url, spotify_token, pkce_state, pkce_verifier, token,
                 error, now, loggedOut>>

Tick ==
  /\ now < MaxTicks * TickMs
  /\ now' = now + TickMs
  /\ observed' = Null
  /\ UNCHANGED <<page, url, spotify_token, pkce_state, pkce_verifier, token,
                 refreshingRef, error, pending, handle, loggedOut>>

(***************************************************************************)
(* SpecTLM: SpotifyPage.  localStorage belongs to the origin and outlives  *)
(* every page: the first page finds it empty, or with the token and the    *)
(* PKCE session that other pages of the origin left in it.                 *)
(***************************************************************************)
TokenInit ==
  /\ GridInit
  /\ page = "closed"
  /\ url = [code |-> Null, state |-> Null]
  /\ spotify_token \in {Null, Some(StoredToken)}
  /\ \E pkce \in {Null, Some(1)} : pkce_state = pkce /\ pkce_verifier = pkce
  /\ token = Null
  /\ refreshingRef = FALSE
  /\ error = Null
  /\ pending = << >>
  /\ handle = Null
  /\ now = 0
  /\ loggedOut = FALSE
  /\ observed = Null

UrlCodes == {Null, Some(1)}
UrlStates == {Null} \cup {Some(n) : n \in PkceStates}

DoLoad == (\E code \in UrlCodes, state \in UrlStates : Load(code, state)) /\ UNCHANGED gvars
DoClose == Close /\ UNCHANGED gvars
DoLogin == (\E state \in PkceStates : login(state)) /\ UNCHANGED gvars
DoLogout == logout /\ UNCHANGED gvars
DoExchangeResolve ==
  /\ \E i \in DOMAIN pending, tok \in ExchangeBodies : ExchangeResolve(i, tok)
  /\ UNCHANGED gvars
DoExchangeReject ==
  /\ \E i \in DOMAIN pending, f \in Failures : ExchangeReject(i, f)
  /\ UNCHANGED gvars
DoRefreshResolve ==
  /\ \E i \in DOMAIN pending, rt \in RefreshBodies : RefreshResolve(i, rt)
  /\ UNCHANGED gvars
DoRefreshReject ==
  /\ \E i \in DOMAIN pending, f \in Failures : RefreshReject(i, f)
  /\ UNCHANGED gvars
DoRefreshTimerFire == RefreshTimerFire /\ UNCHANGED gvars
DoTick == Tick /\ UNCHANGED gvars

TokenNext ==
  \/ DoLoad
  \/ DoClose
  \/ DoLogin
  \/ DoLogout
  \/ DoExchangeResolve
  \/ DoExchangeReject
  \/ DoRefreshResolve
  \/ DoRefreshReject
  \/ DoRefreshTimerFire
  \/ DoTick

SpecTLM == TokenInit /\ [][TokenNext]_vars


(***************************************************************************)
(* SpecLive: SpotifyPage with fair timers, clock and network: an armed     *)
(* timeout that is due fires, the clock advances, and every pending        *)
(* request is answered.  The user's steps (load, close, login, logout)     *)
(* may never happen.                                                       *)
(***************************************************************************)
SpecLive ==
  /\ TokenInit
  /\ [][TokenNext]_vars
  /\ WF_vars(DoRefreshTimerFire)
  /\ WF_vars(DoTick)
  /\ WF_vars(DoRefreshResolve \/ DoRefreshReject)
  /\ WF_vars(DoExchangeResolve \/ DoExchangeReject)

(***************************************************************************)
(* SpecStore: SpotifyPage over every content of the two PKCE keys of       *)
(* localStorage, each present or absent on its own.                        *)
(***************************************************************************)
StoreInit ==
  /\ GridInit
  /\ page = "closed"
  /\ url = [code |-> Null, state |-> Null]
  /\ spotify_token \in {Null, Some(StoredToken)}
  /\ pkce_state \in {Null, Some(1)}
  /\ pkce_verifier \in {Null, Some(1)}
  /\ token = Null
  /\ refreshingRef = FALSE
  /\ error = Null
  /\ pending = << >>
  /\ handle = Null
  /\ now = 0
  /\ loggedOut = FALSE
  /\ observed = Null

SpecStore == StoreInit /\ [][TokenNext]_vars


(***************************************************************************)
(* SpotifyFetcher, and SpecSpotify: the RecentGrid that SpotifyPage        *)
(* renders with source = SpotifyFetcher(token) and pollMs = 30000.  In the *)
(* source `take` and `maxTiles` both default to 6; here both are           *)
(* MaxTilesProp.                                                           *)
(***************************************************************************)
\* recently-played responses list at most MaxItems items
MaxItems == MaxTilesProp + 1
SpotifyTake == MaxTilesProp

\* it?.track?.album of an item: missing, or an album whose first image may
\* be missing (src "")
SpotifyAlbums ==
  {Null} \cup {Some(t) : t \in TilesOf(PollAlbums)}
         \cup {Some([id |-> AlbumId(1), src |-> EmptySrc])}
\* the Retry-After header of a 429: absent, or a number of seconds
RetryAfterChoices == {Null, Some(0), Some(5)}
\* the responses of the recently-played endpoint
SpotifyResponses ==
  [status : {200}, retryAfter : {Null}, items : SeqUpTo(SpotifyAlbums, MaxItems)]
  \cup [status : {429}, retryAfter : RetryAfterChoices, items : {<< >>}]
  \cup [status : {401, 500}, retryAfter : {Null}, items : {<< >>}]

\* the loop over items: lines 129-140
RECURSIVE spotifyFresh(_, _, _)
spotifyFresh(items, fresh, take) ==
  IF items = << >> \/ (fresh # << >> /\ Len(fresh) >= take)
    THEN fresh
    ELSE LET a == Head(items)
         IN IF \/ a = Null
               \/ a[1].id = EmptyId
               \/ a[1].src \in {EmptySrc, NullSrc}
               \/ a[1].id \in IdsOf(fresh)
              THEN spotifyFresh(Tail(items), fresh, take)
              ELSE spotifyFresh(Tail(items), Append(fresh, a[1]), take)

\* res.ok
ResponseOk(res) == res.status \in 200..299

\* the fetcher throws: line 123
SpotifyFetcherThrows(access, res) ==
  access # Null /\ res.status # 429 /\ ~ResponseOk(res)

\* the fetcher with a fixed retry of 15 s on a 429
SpotifyFetcherFixedRetry(access, res) ==
  CASE access = Null -> [tiles |-> << >>, retryMs |-> Null]
    [] access # Null /\ res.status = 429 ->
         [tiles |-> << >>, retryMs |-> Some(15 * 1000)]
    [] OTHER -> [tiles |-> spotifyFresh(res.items, << >>, SpotifyTake),
                 retryMs |-> Null]

\* what the fetcher of a token with the access token `access` resolves
\* with when the endpoint answers res: lines 112-142
SpotifyFetcher(access, res) ==
  CASE access = Null -> [tiles |-> << >>, retryMs |-> Null]
    [] access # Null /\ res.status = 429 ->
         [tiles |-> << >>,
          retryMs |-> Some((IF res.retryAfter = Null THEN 15 ELSE res.retryAfter[1])
                             * 1000)]
    [] OTHER -> [tiles |-> spotifyFresh(res.items, << >>, SpotifyTake),
                 retryMs |-> Null]

\* the props SpotifyPage passes: line 266
SpotifyConfig ==
  [kind |-> "function", maxTiles |-> MaxTilesProp, pollMs |-> 30000, arr |-> << >>]
\* token?.access_token of the signed-in page
AccessChoices == {Null, Some(1)}

SpotifyMount == Mount(SpotifyConfig) /\ UNCHANGED tvars
\* the token changed: useMemo makes a new source
SpotifyReconfigure == Reconfigure(SpotifyConfig) /\ UNCHANGED tvars
SpotifySourceResolve ==
  /\ \E access \in AccessChoices, res \in SpotifyResponses :
       /\ ~SpotifyFetcherThrows(access, res)
       /\ SourceResolve(SpotifyFetcher(access, res))
  /\ UNCHANGED tvars
SpotifySourceReject ==
  /\ \E access \in AccessChoices, res \in SpotifyResponses :
       SpotifyFetcherThrows(access, res)
  /\ SourceReject
  /\ UNCHANGED tvars
SpotifyZombieResolve ==
  /\ \E z \in zombies, access \in AccessChoices, res \in SpotifyResponses,
        last \in BOOLEAN :
       /\ ~SpotifyFetcherThrows(access, res)
       /\ ZombieResolve(z, SpotifyFetcher(access, res), last)
  /\ UNCHANGED tvars

SpotifyNext ==
  \/ SpotifyMount
  \/ SpotifyReconfigure
  \/ DoUnmount
  \/ SpotifySourceResolve
  \/ SpotifySourceReject
  \/ DoLoopResume
  \/ SpotifyZombieResolve
  \/ DoZombieReject
  \/ DoZombieResume
  \/ DoTimerFire

SpecSpotify == Init /\ [][SpotifyNext]_vars


(***************************************************************************)
(* SpecAny: RecentGrid with function sources that resolve with any tiles:  *)
(* fetchOnce hands `fresh` to applyNext as the source returned it, so a    *)
(* tile may have any src, null included.                                   *)
(***************************************************************************)
AnyTiles == TilesOf({1}) \cup {[id |-> AlbumId(2), src |-> NullSrc]}
AnyResults == ResultsWith(SeqUpTo(AnyTiles, MaxPollFresh), {Null})

AnyNext ==
  \/ (\E cfg \in TileConfigs : Mount(cfg)) /\ UNCHANGED tvars
  \/ (\E cfg \in TileConfigs : Reconfigure(cfg)) /\ UNCHANGED tvars
  \/ DoUnmount
  \/ (\E r \in AnyResults : SourceResolve(r)) /\ UNCHANGED tvars
  \/ DoSourceReject
  \/ DoLoopResume
  \/ /\ \E z \in zombies, r \in AnyResults, last \in BOOLEAN : ZombieResolve(z, r, last)
     /\ UNCHANGED tvars
  \/ DoZombieReject
  \/ DoZombieResume
  \/ DoTimerFire

SpecAny == Init /\ [][AnyNext]_vars


(***************************************************************************)
(* SpecLogin: login() of SpotifyPage in its two steps, the click up to     *)
(* makeCodeChallenge(verifier) and the callback of its promise.  The page  *)
(* stays until the navigation the callback starts unloads it, so that the  *)
(* button can be clicked again and a second callback can run.  The token   *)
(* endpoint answers nothing here.                                          *)
(***************************************************************************)
\* the values makeCodeVerifier() draws
Verifiers == {1, 2}
\* makeCodeChallenge: the S256 challenge of a verifier
makeCodeChallenge(v) == <<"S256", v>>

NavigationStarted == observed # Null /\ observed[1].op = "redirect"

\* login() up to .then: the verifier is made and its challenge is awaited
loginStart(v) ==
  /\ page = "open"
  /\ token = Null
  /\ Len(pending) < 2
  /\ pending' = Append(pending, [kind |-> "challenge", t |-> Some(v)])
  /\ UNCHANGED <<page, url, spotify_token, pkce_state, pkce_verifier, token,
                 refreshingRef, error, handle, now, loggedOut, observed>>

\* the callback that stores the verifier of the first login() pending
loginThenFirstVerifier(i, state) ==
  /\ page = "open"
  /\ i \in DOMAIN pending
  /\ pending[i].kind = "challenge"
  /\ NavigationStarted => observed[1].n < MaxLogins
  /\ pkce_state' = Some(state)
  /\ pkce_verifier' = pending[1].t
  /\ observed' = Some([op |-> "redirect", state |-> state,
                       challenge |-> makeCodeChallenge(pending[i].t[1]),
                       n |-> IF NavigationStarted THEN observed[1].n + 1 ELSE 1])
  /\ pending' = Without(pending, i)
  /\ UNCHANGED <<page, url, spotify_token, token, refreshingRef, error, handle,
                 now, loggedOut>>

\* the callback of makeCodeChallenge(verifier).then: lines 236-250; n counts
\* the assignments to window.location.href
loginThen(i, state) ==
  /\ page = "open"
  /\ i \in DOMAIN pending
  /\ pending[i].kind = "challenge"
  /\ NavigationStarted => observed[1].n < MaxLogins
  /\ pkce_state' = Some(state)
  /\ pkce_verifier' = pending[i].t
  /\ observed' = Some([op |-> "redirect", state |-> state,
                       challenge |-> makeCodeChallenge(pending[i].t[1]),
                       n |-> IF NavigationStarted THEN observed[1].n + 1 ELSE 1])
  /\ pending' = Without(pending, i)
  /\ UNCHANGED <<page, url, spotify_token, token, refreshingRef, error, handle,
                 now, loggedOut>>

\* the navigation to the authorization endpoint unloads the page
loginLeaves ==
  /\ page = "open"
  /\ NavigationStarted
  /\ PageGone
  /\ url' = [code |-> Null, state |-> Null]
  /\ UNCHANGED <<spotify_token, pkce_state, pkce_verifier, now, loggedOut>>

LoginNext ==
  \/ DoLoad
  \/ DoClose
  \/ (\E v \in Verifiers : loginStart(v)) /\ UNCHANGED gvars
  \/ (\E i \in DOMAIN pending, state \in PkceStates : loginThen(i, state)) /\ UNCHANGED gvars
  \/ loginLeaves /\ UNCHANGED gvars

SpecLogin == Init /\ [][LoginNext]_vars


(***************************************************************************)
(* SpecApp: the standalone App component (App.jsx), which keeps the same   *)
(* localStorage key and token state as SpotifyPage and refreshes on two    *)
(* paths: safeRefresh (top-up and timeout of the refresh effect, guarded   *)
(* by the `refreshing` variable of the render that ran the effect) and the *)
(* 10-second interval of a second effect, which has no guard.  The page is *)
(* opened without a code in its URL.  pending holds the requests of both   *)
(* paths, kind "refresh" and "interval", each with the token its closure   *)
(* captured; refreshingRef stands for `refreshing` of the effect's render. *)
(***************************************************************************)
\* a render with the token t after the token old: the refresh effect of
\* App runs when its dependencies changed (lines 192-203), in a render
\* whose `refreshing` is false
appEffect(old, t, reqs) ==
  IF depsOf(t) = depsOf(old)
    THEN /\ pending' = reqs
         /\ observed' = Null
         /\ UNCHANGED <<refreshingRef, handle>>
    ELSE IF t = Null \/ t[1].refresh_token = Null
      THEN /\ refreshingRef' = FALSE
           /\ pending' = reqs
           /\ handle' = Null
           /\ observed' = Null
      ELSE /\ refreshingRef' = ~isTokenFresh(t, SkewMs, now)
           /\ pending' = IF isTokenFresh(t, SkewMs, now)
                           THEN reqs
                           ELSE Append(reqs, [kind |-> "refresh", t |-> t])
           /\ observed' = Null
           /\ handle' = Some([t |-> t, due |-> now + delay(t, now)])

AppLoad ==
  /\ page = "closed"
  /\ page' = "open"
  /\ url' = [code |-> Null, state |-> Null]
  /\ token' = spotify_token
  /\ error' = Null
  /\ appEffect(Null, spotify_token, << >>)
  /\ UNCHANGED <<spotify_token, pkce_state, pkce_verifier, now, loggedOut>>

\* the timeout of the effect fires: safeRefresh(token) of its render
AppTimerFire ==
  /\ page = "open"
  /\ handle # Null
  /\ handle[1].due <= now
  /\ handle' = Null
  /\ refreshingRef' = TRUE
  /\ pending' = IF refreshingRef
                  THEN pending
                  ELSE Append(pending, [kind |-> "refresh", t |-> handle[1].t])
  /\ observed' = Null
  /\ UNCHANGED <<page, url, spotify_token, pkce_state, pkce_verifier, token,
                 error, now, loggedOut>>

\* the interval callback (lines 208-226) up to its await
AppIntervalFire ==
  /\ page = "open"
  /\ token # Null
  /\ token[1].expires_at # Null
  /\ now > token[1].expires_at[1] - 30000
  /\ token[1].refresh_token # Null
  /\ \A j \in DOMAIN pending : pending[j].kind # "interval"
  /\ pending' = Append(pending, [kind |-> "interval", t |-> token])
  /\ observed' = Null
  /\ UNCHANGED <<page, url, spotify_token, pkce_state, pkce_verifier, token,
                 refreshingRef, error, handle, now, loggedOut>>

\* refreshToken resolved with rt, on either path: the token is rebuilt from
\* the captured one, stored and set (lines 163-172, 212-220); the finally
\* of safeRefresh clears `refreshing` of its render
AppRefreshResolve(i, rt) ==
  /\ page = "open"
  /\ i \in DOMAIN pending
  /\ pending[i].kind \in {"refresh", "interval"}
  /\ LET t == pending[i].t[1]
         newTok ==
           [access_token |-> rt.access_token,
            refresh_token |-> IF rt.refresh_token # Null
                                THEN rt.refresh_token
                                ELSE t.refresh_token,
            expires_in |-> rt.expires_in,
            received_at |-> IF pending[i].kind = "refresh" THEN now ELSE t.received_at,
            expires_at |-> Some(now + rt.expires_in[1] * 1000)]
     IN /\ spotify_token' = Some(newTok)
        /\ token' = Some(newTok)
        /\ IF depsOf(Some(newTok)) = depsOf(token)
             THEN /\ pending' = Without(pending, i)
                  /\ observed' = Null
                  /\ handle' = handle
                  /\ refreshingRef' =
                       (refreshingRef /\ ~(pending[i].kind = "refresh"
                                            /\ depsOf(pending[i].t) = depsOf(token)))
             ELSE appEffect(token, Some(newTok), Without(pending, i))
  /\ UNCHANGED <<page, url, pkce_state, pkce_verifier, error, now, loggedOut>>

\* refreshToken threw inside safeRefresh: e.response is undefined, so the
\* catch only sets the error (lines 173-186)
AppRefreshReject(i, f) ==
  /\ page = "open"
  /\ i \in DOMAIN pending
  /\ pending[i].kind = "refresh"
  /\ error' = Some(<<"Refresh error", Message("Refresh failed", f)>>)
  /\ refreshingRef' = (refreshingRef /\ depsOf(pending[i].t) # depsOf(token))
  /\ pending' = Without(pending, i)
  /\ observed' = Some([op |-> "refreshFailed", failure |-> f,
                       stored |-> spotify_token, held |-> token])
  /\ UNCHANGED <<page, url, spotify_token, pkce_state, pkce_verifier, token,
                 handle, now, loggedOut>>

\* refreshToken threw inside the interval callback: lines 221-225
AppIntervalReject(i, f) ==
  /\ page = "open"
  /\ i \in DOMAIN pending
  /\ pending[i].kind = "interval"
  /\ spotify_token' = Null
  /\ token' = Null
  /\ error' = Some(Message("Refresh failed", f))
  /\ IF depsOf(Null) = depsOf(token)
       THEN UNCHANGED <<refreshingRef, handle>>
       ELSE refreshingRef' = FALSE /\ handle' = Null
  /\ pending' = Without(pending, i)
  /\ observed' = Some([op |-> "refreshFailed", failure |-> f,
                       stored |-> spotify_token, held |-> token])
  /\ UNCHANGED <<page, url, pkce_state, pkce_verifier, now, loggedOut>>

\* the responses to a refresh in SpecApp: a new access token for one
\* minute, the refresh token rotated or left out
AppBodies ==
  {rt \in RefreshBodies :
     rt.access_token = Some(NumAccess) /\ rt.expires_in = Some(60)}

AppNext ==
  \/ AppLoad /\ UNCHANGED gvars
  \/ DoClose
  \/ AppTimerFire /\ UNCHANGED gvars
  \/ AppIntervalFire /\ UNCHANGED gvars
  \/ (\E i \in DOMAIN pending, rt \in AppBodies : AppRefreshResolve(i, rt)) /\ UNCHANGED gvars
  \/ (\E i \in DOMAIN pending, f \in Failures : AppRefreshReject(i, f)) /\ UNCHANGED gvars
  \/ (\E i \in DOMAIN pending, f \in Failures : AppIntervalReject(i, f)) /\ UNCHANGED gvars
  \/ DoTick

SpecApp == TokenInit /\ [][AppNext]_vars


(***************************************************************************)
(* SpecAdapters: the two source adapters of the pages as functions of what *)
(* the service answers.  One fetch is drawn and its outcome is recorded in *)
(* `applied`.                                                              *)
(***************************************************************************)
\* the Video and Track nodes of a session history.  key: the first of the
\* key attributes the tile builder reads, if any; art: the candidates of
\* resolveThumbUrl give a URL ("url"), all of them are refused ("invalid"),
\* or one the loop reaches is missing, and isValidThumb(null) throws
\* ("missing"); viewedAt 0 is a node without the attribute.
PlexNodes ==
  [tag : {"Track"}, type : {Null}, accountID : {1}, viewedAt : {0, 1},
   key : {Some(1), Some(2)}, art : {"url"}]
  \cup [tag : {"Video"}, type : {Some("movie")}, accountID : {1},
        viewedAt : {0, 1}, key : {Some(1), Some(2)}, art : {"url"}]
  \cup [tag : {"Track"}, type : {Null}, accountID : {1}, viewedAt : {1},
        key : {Some(1)}, art : {"invalid", "missing"}]
  \cup [tag : {"Track"}, type : {Null}, accountID : {1}, viewedAt : {0},
        key : {Null}, art : {"url"}]
  \cup [tag : {"Video"}, type : {Null}, accountID : {1}, viewedAt : {1},
        key : {Some(2)}, art : {"url"}]
  \cup [tag : {"Track"}, type : {Null}, accountID : {2}, viewedAt : {1},
        key : {Some(2)}, art : {"url"}]

\* parseHistory without its sort: the entries in document order
parseHistoryUnsorted(nodes) ==
  [i \in 1..Len(nodes) |->
     [kind |-> IF nodes[i].tag = "Track" THEN "track" ELSE "video",
      type |-> IF nodes[i].type # Null THEN nodes[i].type[1]
               ELSE IF nodes[i].tag = "Track" THEN "track" ELSE "video",
      viewedAt |-> nodes[i].viewedAt,
      pos |-> i,
      node |-> nodes[i]]]

\* parseHistory: one entry per node (pos: its place in the document), then
\* out.sort by viewedAt, descending; Array.prototype.sort is stable, so the
\* last node goes behind the entries that are not older than it
RECURSIVE parseHistory(_)
parseHistory(nodes) ==
  IF nodes = << >> THEN << >>
  ELSE LET n == Len(nodes)
           s == parseHistory(SubSeq(nodes, 1, n - 1))
           x == [kind |-> IF nodes[n].tag = "Track" THEN "track" ELSE "video",
                 type |-> IF nodes[n].type # Null THEN nodes[n].type[1]
                          ELSE IF nodes[n].tag = "Track" THEN "track" ELSE "video",
                 viewedAt |-> nodes[n].viewedAt,
                 pos |-> n,
                 node |-> nodes[n]]
           k == Cardinality({i \in DOMAIN s : s[i].viewedAt >= x.viewedAt})
       IN SubSeq(s, 1, k) \o <<x>> \o SubSeq(s, k + 1, Len(s))

\* the two filters of makePlexFetcher: by account, then by media kind
plexKeeps(cfg, e) ==
  /\ cfg.accountId # Null => e.node.accountID = cfg.accountId[1]
  /\ CASE cfg.mediaKind = "music" -> e.kind = "track" \/ e.type = "track"
       [] cfg.mediaKind = "video" ->
            e.kind = "video" /\ e.type \in {"movie", "episode"}
       [] OTHER -> TRUE

\* buildTileFromTrack and buildTileFromVideo for an entry whose artwork
\* resolves: the id is the node's key, or a crypto.randomUUID() that no
\* other entry has
buildTile(e) ==
  [id |-> IF e.node.key # Null THEN AlbumId(e.node.key[1]) ELSE <<"uuid", e.pos>>,
   src |-> 1]

\* the for loop of makePlexFetcher over `filtered`, from index i on
RECURSIVE plexTiles(_, _, _, _)
plexTiles(filtered, i, acc, take) ==
  IF i > Len(filtered) THEN [threw |-> FALSE, tiles |-> acc]
  ELSE LET e == filtered[i]
       IN CASE e.node.art = "missing" -> [threw |-> TRUE, tiles |-> << >>]
            [] e.node.art = "invalid" -> plexTiles(filtered, i + 1, acc, take)
            [] OTHER ->
                 IF buildTile(e).id \in IdsOf(acc)
                   THEN plexTiles(filtered, i + 1, acc, take)
                   ELSE IF Len(acc) + 1 >= take
                     THEN [threw |-> FALSE, tiles |-> Append(acc, buildTile(e))]
                     ELSE plexTiles(filtered, i + 1, Append(acc, buildTile(e)), take)

\* what the fetcher made for cfg does when the history endpoint answers res:
\* it throws, or resolves with {tiles}
makePlexFetcher(cfg, res) ==
  IF cfg.token = Null THEN [threw |-> FALSE, tiles |-> << >>]
  ELSE IF ~ResponseOk(res) THEN [threw |-> TRUE, tiles |-> << >>]
  ELSE plexTiles(SelectSeq(parseHistory(res.nodes), LAMBDA e : plexKeeps(cfg, e)),
                 1, << >>, cfg.take)

AdapterNext ==
  \/ /\ applied = Null
     /\ \E access \in AccessChoices, res \in SpotifyResponses :
          applied' = Some([adapter |-> "spotify",
                           asked |-> access # Null,
                           status |-> res.status,
                           items |-> res.items,
                           take |-> SpotifyTake,
                           threw |-> SpotifyFetcherThrows(access, res),
                           out |-> IF SpotifyFetcherThrows(access, res)
                                     THEN << >>
                                     ELSE SpotifyFetcher(access, res).tiles])
     /\ UNCHANGED <<mounted, run, zombies, prevRef, tiles, timerRef, armed,
                    emitted>>
     /\ UNCHANGED tvars
  \/ /\ applied = Null
     /\ \E cfg \in [mediaKind : {"music", "video", "all"},
                    accountId : {Null, Some(1)},
                    token : {Some(1)},
                    take : {MaxTilesProp}]
                  \cup [mediaKind : {"music"}, accountId : {Null},
                        token : {Null}, take : {MaxTilesProp}],
           res \in [status : {200}, nodes : SeqUpTo(PlexNodes, MaxItems)]
                   \cup [status : {500}, nodes : {<< >>}] :
          applied' = Some([adapter |-> "plex",
                           asked |-> cfg.token # Null,
                           status |-> res.status,
                           cfg |-> cfg,
                           nodes |-> res.nodes,
                           take |-> cfg.take,
                           threw |-> makePlexFetcher(cfg, res).threw,
                           out |-> makePlexFetcher(cfg, res).tiles])
     /\ UNCHANGED <<mounted, run, zombies, prevRef, tiles, timerRef, armed,
                    emitted>>
     /\ UNCHANGED tvars

SpecAdapters == Init /\ [][AdapterNext]_vars

(***************************************************************************)
(* Claims.                                                                 *)
(***************************************************************************)
Range(s) == {s[i] : i \in DOMAIN s}
NoDupIds(s) == \A i, j \in DOMAIN s : i # j => s[i].id # s[j].id
IsPlaceholder(t) == t.src = NullSrc

\* the k-th element of a set of numbers, in increasing order
Nth(S, k) == CHOOSE i \in S : Cardinality({j \in S : j < i}) = k - 1
\* the subsequence of s at the indices S
SubSeqAt(s, S) == [k \in 1..Cardinality(S) |-> s[Nth(S, k)]]

\* the entries of s that are the first of their id in s
FirstOfId(s) ==
  SubSeqAt(s, {i \in DOMAIN s : \A j \in 1..(i - 1) : s[j].id # s[i].id})
\* the entries of prev that are the first of their id in prev and whose id
\* is not in ids
Unseen(prev, ids) ==
  SubSeqAt(prev, {i \in DOMAIN prev :
                    /\ prev[i].id \notin ids
                    /\ \A j \in 1..(i - 1) : prev[j].id # prev[i].id})

\* slot i (1-based) of a list read as maxTiles slots: the entry, or the
\* placeholder of that position
SlotAt(s, i) == IF i <= Len(s) THEN s[i] ELSE placeholder(i - 1)
\* two lists differ in at least one position, placeholders included
Differs(a, b) ==
  \E i \in 1..Max(Len(a), Len(b)) : SlotAt(a, i) # SlotAt(b, i)

C2_NoSharedId ==
  /\ NoDupIds(prevRef)
  /\ emitted # Null => NoDupIds(emitted[1].tiles)

\* C3: a fetch that completes in a closure whose cleanup has run changes
\* nothing: no list is emitted (prevRef is written exactly when a list is
\* emitted) and no timeout of a stopped closure is armed.
C3_NoEffectAfterStop ==
  /\ emitted # Null => ~emitted[1].stopped
  /\ \A t \in armed : ~t.closure.stop

\* C8: the result starts with the first occurrences of the ids of fresh, in
\* order, up to maxTiles; an entry of fresh that repeats an id takes no
\* slot, so what follows comes from the previous set.
C8_FreshFirstOccurrences ==
  applied # Null =>
    LET a == applied[1]
        accepted == Take(FirstOfId(a.fresh), a.maxTiles)
    IN /\ Len(prevRef) >= Len(accepted)
       /\ SubSeq(prevRef, 1, Len(accepted)) = accepted
       /\ \A i \in (Len(accepted) + 1)..Len(prevRef) : prevRef[i] \in Range(a.prev)

\* C9: after the accepted entries of fresh come the entries of the previous
\* set, in its order, skipping every id already accepted, until maxTiles is
\* reached or the previous set is exhausted.
C9_Backfill ==
  applied # Null =>
    LET a == applied[1]
        accepted == Take(a.fresh, a.maxTiles)
    IN prevRef = accepted \o Take(Unseen(a.prev, IdsOf(accepted)),
                                  a.maxTiles - Len(accepted))

\* one entry of the previous set is backfilled, one is skipped for its id
\* and one is dropped for lack of room
C9_Witness ==
  /\ applied # Null
  /\ LET a == applied[1]
     IN /\ Len(a.fresh) = 1 /\ a.maxTiles = 2 /\ Len(a.prev) = 2
        /\ a.prev[1].id # a.fresh[1].id
        /\ a.prev[2].id # a.fresh[1].id
        /\ a.prev[1].id # a.prev[2].id
        /\ prevRef = <<a.fresh[1], a.prev[1]>>

\* C10: the stable set is replaced and a list is emitted exactly when the
\* reconciled list differs from the stable set in some position.
C10_EmitIffDiffers ==
  applied # Null =>
    LET a == applied[1]
        result == applyNext(a.fresh, a.prev, a.maxTiles)
    IN IF Differs(a.prev, result)
         THEN /\ prevRef = result
              /\ emitted # Null /\ emitted[1].tiles = result
              /\ tiles = result
         ELSE /\ prevRef = a.prev
              /\ emitted = Null

\* a reconciliation that only reorders the stable set is emitted
C10_Witness ==
  /\ applied # Null /\ emitted # Null
  /\ Len(prevRef) = 2
  /\ prevRef[1].id # prevRef[2].id
  /\ applied[1].prev = <<prevRef[2], prevRef[1]>>

RefreshesPending == {i \in DOMAIN pending : pending[i].kind = "refresh"}
SafeRefreshCalled == observed # Null /\ observed[1].op = "safeRefresh"
RefreshFailed == observed # Null /\ observed[1].op = "refreshFailed"

\* C4: a page awaits at most one refresh request at any time, and a
\* safeRefresh call made while one is pending sends no request.
C4_OneRefreshInFlight ==
  /\ Cardinality(RefreshesPending) <= 1
  /\ (SafeRefreshCalled /\ observed[1].busy) => observed[1].sent = 0

\* safeRefresh has been called while a refresh was pending, and that
\* refresh is still the only one
C4_Witness ==
  /\ SafeRefreshCalled /\ observed[1].busy
  /\ Cardinality(RefreshesPending) = 1
  /\ refreshingRef

\* C5: from logout() until a code exchange succeeds, the persisted token
\* and the in-memory token are absent, whatever request completes.
C5_LoggedOutStaysAbsent ==
  loggedOut => spotify_token = Null /\ token = Null

\* C6: a refresh that fails with invalid_grant leaves no persisted token
\* and no in-memory token.
C6_InvalidGrantLogsOut ==
  (RefreshFailed /\ observed[1].failure.error = "invalid_grant") =>
    spotify_token = Null /\ token = Null

\* C7: a refresh that fails for another reason than invalid_grant leaves
\* the persisted token and the in-memory token as they were and sets the
\* error message.
C7_TransientKeepsToken ==
  (RefreshFailed /\ observed[1].failure.error # "invalid_grant") =>
    /\ spotify_token = observed[1].stored
    /\ token = observed[1].held
    /\ error # Null
    /\ error[1][1] = "Refresh error"

\* a refresh of a signed-in page has failed with a 5xx and with a network
\* error
C7_Witness ==
  /\ RefreshFailed
  /\ observed[1].failure.status \in {0, 500}
  /\ signedIn(token)
  /\ spotify_token = token

\* the steps of the running closure's loop: its continuation after
\* `await fetchOnce()`, and its catch after source() rejected
LoopResumed == run.pc = "returned" /\ run' = [run EXCEPT !.pc = "idle", !.wait = Null]
LoopCaught == run.pc = "fetching" /\ run' = [run EXCEPT !.pc = "idle"]
\* the timeout timerRef holds is armed for the running closure with delay ms
ArmedWith(ms) ==
  \E t \in armed : t.h = timerRef /\ t.ms = ms /\ t.closure = run

\* C11: reconciling the same fresh batch a second time in a row leaves the
\* stable set as the first pass left it and emits nothing.
C11_Idempotent ==
  [][(applied # Null /\ applied' # Null /\ applied'[1].fresh = applied[1].fresh)
       => (prevRef' = prevRef /\ emitted' = Null)]_vars

\* a batch has been reconciled against the stable set that its own first
\* pass produced, backfilled from the set before
C11_Witness ==
  /\ applied # Null /\ emitted = Null
  /\ Len(applied[1].fresh) = 1
  /\ applied[1].prev = prevRef
  /\ Len(prevRef) = 2
  /\ prevRef[1] = applied[1].fresh[1]
  /\ prevRef[2].id # prevRef[1].id

\* C12: after source() resolved, the next poll is armed after retryMs when
\* retryMs is a positive number and after pollMs in every other case.
C12_RetryOrPoll ==
  [][(LoopResumed /\ run.kind = "function")
       => \E ms \in {IF run.wait # Null /\ run.wait[1] > 0
                        THEN run.wait[1]
                        ELSE run.pollMs} : ArmedWith(ms)']_vars

\* C13: when source() rejects, the loop goes on (its next timeout is
\* armed), the stable set and the tiles are unchanged and nothing is
\* emitted.
C13_ThrowAbsorbed ==
  [][LoopCaught
       => /\ prevRef' = prevRef
          /\ tiles' = tiles
          /\ emitted' = Null
          /\ timerRef' \in {t.h : t \in armed'}]_vars

\* source() has rejected while tiles were shown, and they still are
C13_Witness ==
  /\ mounted = "yes" /\ run.kind = "function" /\ run.pc = "idle"
  /\ ArmedWith(ErrorDelayMs)
  /\ prevRef # << >> /\ tiles = prevRef /\ emitted = Null

\* C14: when source() rejects in a closure that is not stopped, the next
\* cycle is armed after exactly 30000 ms.
C14_ErrorDelay ==
  [][LoopCaught => ArmedWith(ErrorDelayMs)']_vars

\* the next cycle is armed after 30000 ms for a closure whose pollMs is
\* another delay
C14_Witness ==
  /\ ArmedWith(ErrorDelayMs)
  /\ run.pollMs # ErrorDelayMs

C17_NoTimerAfterStop ==
  \A t \in armed : ~t.closure.stop

\* the component is gone, a closure stopped during its fetch has its
\* loop continuation pending, and nothing is armed
C17_Witness ==
  /\ mounted = "gone"
  /\ [pc |-> "returned", maxTiles |-> 1] \in zombies
  /\ timerRef = 0 /\ armed = {}

\* an entry of an array source that has a non-empty id and a non-empty src
\* (a string is its own id and src)
HasIdAndSrc(v) ==
  IF v.str
    THEN v.src[1] # EmptySrc
    ELSE /\ v.id # Null /\ v.id[1] # EmptyId
         /\ v.src # Null /\ v.src[1] # EmptySrc
\* the tile of such an entry
TileOfEntry(v) ==
  IF v.str
    THEN [id |-> <<"uri", v.src[1]>>, src |-> v.src[1]]
    ELSE [id |-> v.id[1], src |-> v.src[1]]
TilesOfEntries(arr) ==
  LET kept == SelectSeq(arr, HasIdAndSrc)
  IN [i \in 1..Len(kept) |-> TileOfEntry(kept[i])]

\* C16: the tiles of a static source are its strings as {id: s, src: s} and
\* its objects' own id and src, without the entries that lack a non-empty
\* id or src, cut to maxTiles.
C16_StaticNormalized ==
  applied # Null =>
    prevRef = Take(TilesOfEntries(applied[1].arr), applied[1].maxTiles)

ExchangesPending(reqs) == {i \in DOMAIN reqs : reqs[i].kind = "exchange"}
\* the page is opened: its state is initialised and doExchange runs
PageLoads == page = "closed" /\ page' = "open"
\* the exchange this page awaited has resolved (a rejection sets `error`)
ExchangeSucceeds ==
  /\ page = "open" /\ page' = "open"
  /\ ExchangesPending(pending) # {}
  /\ ExchangesPending(pending') = {}
  /\ error' = error

\* C18: doExchange with a returned state that is not the stored pkce_state
\* sends no request and leaves the persisted and the in-memory token as
\* they were.
C18_StateMismatchIgnored ==
  [][(PageLoads /\ url'.state # pkce_state)
       => /\ ExchangesPending(pending') = {}
          /\ spotify_token' = spotify_token
          /\ token' = spotify_token]_vars

\* the page was opened at a redirect URL whose state is not the stored
\* one, with a code and a stored verifier: nothing is awaited
C18_Witness ==
  /\ page = "open"
  /\ url.code # Null /\ url.state # Null
  /\ pkce_state # Null /\ pkce_verifier # Null
  /\ url.state # pkce_state
  /\ ExchangesPending(pending) = {}
  /\ token = spotify_token

\* C19: an exchange request is pending only if the store holds a PKCE
\* verifier and a PKCE state, whatever the code and state of the URL.
C19_NoExchangeWithoutPkce ==
  ExchangesPending(pending) # {} => pkce_verifier # Null /\ pkce_state # Null

\* C20: when the code exchange succeeds, the token is persisted and set in
\* memory, pkce_state and pkce_verifier are deleted, and code and state are
\* gone from the URL of the page, which stays open.
C20_ExchangeSuccess ==
  [][ExchangeSucceeds
       => /\ spotify_token' # Null
          /\ spotify_token'[1].received_at = now
          /\ token' = spotify_token'
          /\ pkce_state' = Null /\ pkce_verifier' = Null
          /\ url' = [code |-> Null, state |-> Null]]_vars

\* the token received at this time is persisted and in memory, the PKCE
\* keys and the URL parameters are gone and no request is awaited
C20_Witness ==
  /\ page = "open" /\ ~loggedOut
  /\ token # Null /\ token = spotify_token
  /\ token[1].received_at = now
  /\ token[1].access_token = Some(2) /\ token[1].expires_in = Some(120)
  /\ pkce_state = Null /\ pkce_verifier = Null
  /\ url = [code |-> Null, state |-> Null]
  /\ pending = << >>

\* the step in which a code exchange ends in the catch block of doExchange:
\* the request is no longer pending, the page is still there, and the PKCE
\* verifier the request was made with is still stored (the try block
\* deletes it)
ExchangeFails ==
  /\ page = "open"
  /\ page' = "open"
  /\ Cardinality(ExchangesPending(pending')) < Cardinality(ExchangesPending(pending))
  /\ pkce_verifier # Null
  /\ pkce_verifier' = pkce_verifier

\* C21: when the token endpoint rejects the code exchange, no token is
\* written to localStorage or to the token state (a page that was logged
\* out stays logged out), and the error state holds the message of the
\* failure.
C21_ExchangeFailure ==
  [][ExchangeFails =>
       /\ spotify_token' = spotify_token
       /\ token' = token
       /\ (~signedIn(token) => ~signedIn(token'))
       /\ error' # Null
       /\ error'[1] \in {Message("Token exchange failed", f) : f \in Failures}]_vars

\* a logged-out page that came back from the authorization endpoint shows
\* the HTTP failure of its exchange, and holds and stores no token
C21_Witness ==
  /\ page = "open"
  /\ url.code # Null
  /\ error = Some(<<"Token exchange failed", 400>>)
  /\ pending = << >>
  /\ token = Null
  /\ spotify_token = Null

\* the skews isTokenFresh is asked about: none, and the default
Skews == {0, SkewMs}

\* C22: isTokenFresh(token, skewMs) is true exactly when the token has an
\* access_token and the clock is before expires_at - skewMs: it is false at
\* expires_at - skewMs and after, and false for a token without
\* access_token.
C22_IsFresh ==
  \A skew \in Skews :
    /\ isTokenFresh(token, skew, now) <=>
         /\ token # Null
         /\ token[1].access_token # Null
         /\ token[1].expires_at # Null
         /\ now < token[1].expires_at[1] - skew
    /\ (token # Null /\ token[1].access_token = Null)
         => ~isTokenFresh(token, skew, now)
    /\ (token # Null /\ token[1].expires_at = Some(now + skew))
         => ~isTokenFresh(token, skew, now)

\* the refresh effect has run for a token with an access_token at exactly
\* expires_at - 60000, found it not fresh and called safeRefresh
C22_Witness ==
  /\ token # Null
  /\ token[1].access_token # Null
  /\ token[1].expires_at = Some(now + SkewMs)
  /\ handle = Some([t |-> token, due |-> now])
  /\ observed = Some([op |-> "safeRefresh", busy |-> FALSE, sent |-> 1])

\* the step in which the refresh effect runs: the page mounts, or a render
\* finds the effect's dependencies changed
RefreshEffectRuns ==
  /\ page' = "open"
  /\ page = "closed" \/ depsOf(token') # depsOf(token)

\* C23: when the refresh effect runs for a token that has a refresh_token
\* and is not fresh, a refresh request is pending when the effect returns,
\* with the timeout of this run still armed: the request is the one this
\* run sent for its token, or one that was already in flight (safeRefresh
\* returns at once while refreshingRef is set).
C23_ImmediateRefresh ==
  [][(/\ RefreshEffectRuns
      /\ token' # Null
      /\ token'[1].refresh_token # Null
      /\ ~isTokenFresh(token', SkewMs, now'))
       => /\ refreshingRef'
          /\ handle' = Some([t |-> token', due |-> now'])
          /\ \E i \in DOMAIN pending' :
               /\ pending'[i].kind = "refresh"
               /\ \/ pending'[i].t = token'
                  \/ \E j \in DOMAIN pending : pending[j] = pending'[i]]_vars

\* a token that came from the token endpoint later than the page's first
\* token and was not fresh on arrival: the effect has sent the refresh for
\* it, and the timeout it armed has not fired
C23_Witness ==
  /\ page = "open"
  /\ token # Null
  /\ token[1].received_at = now
  /\ now > 0
  /\ ~isTokenFresh(token, SkewMs, now)
  /\ pending = <<[kind |-> "refresh", t |-> token]>>
  /\ handle = Some([t |-> token, due |-> now])

RefreshSucceeds ==
  /\ page = "open"
  /\ page' = "open"
  /\ spotify_token' # Null
  /\ spotify_token' # spotify_token
  /\ Cardinality(ExchangesPending(pending')) = Cardinality(ExchangesPending(pending))

\* the token the refresh of t is to produce from the response rt at the
\* time clock
Refreshed(t, rt, clock) ==
  [access_token |-> rt.access_token,
   expires_in |-> rt.expires_in,
   expires_at |-> Some(clock + rt.expires_in[1] * 1000),
   refresh_token |-> IF rt.refresh_token = Null THEN t.refresh_token ELSE rt.refresh_token,
   received_at |-> clock]

RateLimited == run.pc = "fetching" /\ run'.pc = "returned" /\ run'.wait # Null

\* C26: on a 429 the fetcher does not throw and resolves with no tiles and
\* retryMs = Retry-After x 1000 (15000 without the header); RecentGrid
\* then leaves the stable set and the tiles as they are, emits nothing, and
\* arms its next timeout after that retryMs.
C26_RateLimit ==
  [][/\ \A h \in RetryAfterChoices :
          LET res == [status |-> 429, retryAfter |-> h, items |-> << >>]
          IN /\ ~SpotifyFetcherThrows(Some(1), res)
             /\ SpotifyFetcher(Some(1), res) =
                  [tiles |-> << >>,
                   retryMs |-> Some(IF h = Null THEN 15000 ELSE h[1] * 1000)]
     /\ RateLimited =>
          /\ prevRef' = prevRef
          /\ tiles' = tiles
          /\ emitted' = Null
     /\ (LoopResumed /\ run.wait # Null) => \E ms \in {run.wait[1]} : ArmedWith(ms)']_vars

\* tiles are shown and the next poll is armed 5 s after a 429 with
\* Retry-After: 5
C26_Witness ==
  /\ mounted = "yes"
  /\ run.pc = "idle"
  /\ ArmedWith(5000)
  /\ prevRef # << >>
  /\ tiles = prevRef

\* C27: at most one call of source() is pending at any time: while the
\* call of a closure that was cleaned up is still pending, the closure of
\* the new configuration has none pending.
C27_OneFetchPending ==
  ~(run.pc = "fetching" /\ \E z \in zombies : z.pc = "fetching")

\* C28: at most one timeout of RecentGrid is armed, and it is the one
\* timerRef holds.
C28_OnePollTimer ==
  /\ Cardinality(armed) <= 1
  /\ \A t \in armed : t.h = timerRef /\ ~t.closure.stop

\* tiles are shown and the one timeout armed is that of the catch branch:
\* the closure has armed a timeout before (the cycle that brought the
\* tiles, or the effect run of an earlier configuration)
C28_Witness ==
  /\ mounted = "yes"
  /\ prevRef # << >>
  /\ zombies # {}
  /\ Cardinality(armed) = 1
  /\ ArmedWith(ErrorDelayMs)

\* a refresh of the page's token has just failed with something other than
\* invalid_grant, and the token still has its refresh_token
TransientFailure ==
  /\ page = "open"
  /\ RefreshFailed
  /\ observed[1].failure.error # "invalid_grant"
  /\ token # Null
  /\ token[1].refresh_token # Null

\* C29: after a transient refresh failure of a token that still has a
\* refresh_token, a refresh request is eventually sent again while the
\* page stays open (with fair timers, clock and network, and whatever the
\* user does or does not do).
C29_RefreshRetried ==
  [](TransientFailure => <>(HasRefresh(pending) \/ page = "closed"))

\* the step in which the code exchange the page awaited ends, in the try
\* block or in the catch block of doExchange
ExchangeEnds ==
  /\ page = "open"
  /\ page' = "open"
  /\ Cardinality(ExchangesPending(pending')) < Cardinality(ExchangesPending(pending))

\* C30: when a code exchange ends, with a token or with a failure, the
\* PKCE state and verifier it was made with are no longer stored, so that
\* no later run of doExchange can send them again.
C30_PkceSingleUse ==
  [][ExchangeEnds => (pkce_state' = Null /\ pkce_verifier' = Null)]_vars

\* the tiles of s that are not placeholders
RealTiles(s) == Cardinality({i \in DOMAIN s : s[i].src # NullSrc})

\* C31: while maxTiles stays the same (and no closure of another
\* configuration is left running), no step of RecentGrid lowers the number
\* of non-placeholder tiles of the stable set.
C31_RealTilesNeverDecrease ==
  [][(/\ mounted = "yes" /\ mounted' = "yes"
      /\ run'.maxTiles = run.maxTiles
      /\ zombies = {} /\ zombies' = {})
       => RealTiles(prevRef') >= RealTiles(prevRef)]_vars

\* C32: the stable set kept for backfill (prevRef) holds no tile with
\* src = null, whatever the source returns.
C32_NoPlaceholderInPrev ==
  \A i \in DOMAIN prevRef : prevRef[i].src # NullSrc

\* C33: when login() has assigned the authorization URL, the store already
\* holds the state of that URL and the verifier its code_challenge was
\* derived from; this also holds for the last URL assigned when login()
\* ran a second time before the page was unloaded.  The two keys are
\* stored together.
C33_LoginConsistent ==
  /\ (pkce_state = Null) <=> (pkce_verifier = Null)
  /\ NavigationStarted =>
       /\ pkce_state = Some(observed[1].state)
       /\ pkce_verifier # Null
       /\ observed[1].challenge = makeCodeChallenge(pkce_verifier[1])

\* login() ran twice before the page was unloaded: the second callback has
\* stored its pair and assigned its URL
C33_Witness ==
  /\ page = "open"
  /\ NavigationStarted
  /\ observed[1].n = 2
  /\ pending = << >>
  /\ pkce_verifier = Some(2)

\* the step in which an array source replaces a source of another kind
ArrayReplaces == mounted = "yes" /\ run.kind # "array" /\ run'.kind = "array"

\* C34: when an array source replaces an earlier source, the stable set
\* becomes the normalized entries of the array (at most maxTiles) followed
\* by the entries of the stable set of before, in its order and skipping
\* the ids already taken, up to maxTiles; that list is emitted, once,
\* unless it equals the stable set of before.
C34_StaticReconciled ==
  [][ArrayReplaces =>
       \E arr \in StaticArrays :
         LET st == Take(normalizeArraySource(arr), run'.maxTiles)
             result == st \o Take(Unseen(prevRef, IdsOf(st)),
                                  run'.maxTiles - Len(st))
         IN /\ prevRef' = result
            /\ tiles' = result
            /\ IF Differs(prevRef, result)
                 THEN emitted' # Null /\ emitted'[1].tiles = result
                 ELSE emitted' = Null]_vars

\* an array with one valid entry has replaced a function source that had
\* brought tiles: its tile is shown first, a tile of before fills the
\* second slot, and the list has been emitted
C34_Witness ==
  /\ mounted = "yes"
  /\ run.kind = "array"
  /\ run.maxTiles = 2
  /\ Len(prevRef) = 2
  /\ prevRef[1] = [id |-> <<"uri", 2>>, src |-> 2]
  /\ prevRef[2] = [id |-> AlbumId(1), src |-> 2]
  /\ emitted # Null
  /\ emitted[1].tiles = prevRef
  /\ tiles = prevRef

\* C35: in the standalone App a refresh that fails for another reason than
\* invalid_grant, in safeRefresh or in the 10-second interval, leaves the
\* persisted token and the token state as they were.
C35_AppTransientKeepsToken ==
  (RefreshFailed /\ observed[1].failure.error # "invalid_grant") =>
    /\ spotify_token = observed[1].stored
    /\ token = observed[1].held

\* the step in which safeRefresh sends a request: the last one of pending'
RefreshSent ==
  /\ observed' # Null
  /\ observed'[1].op = "safeRefresh"
  /\ observed'[1].sent = 1

\* C36: a refresh request carries the refresh_token that is persisted when
\* it is sent, so never one that a successful refresh has replaced: the
\* timeout and the top-up use the token of the last render, and a rotated
\* refresh_token is stored and set before either can run again.
C36_NoSupersededRefreshToken ==
  [][RefreshSent =>
       /\ spotify_token' # Null
       /\ pending'[Len(pending')].kind = "refresh"
       /\ pending'[Len(pending')].t[1].refresh_token
            = spotify_token'[1].refresh_token]_vars

\* the stored token's refresh_token was rotated by a refresh, and the next
\* refresh request has been sent with the new one
C36_Witness ==
  /\ page = "open"
  /\ pkce_state # Null
  /\ spotify_token # Null
  /\ spotify_token[1].refresh_token = Some(2)
  /\ StoredToken.refresh_token = Some(1)
  /\ SafeRefreshCalled
  /\ observed[1].sent = 1
  /\ pending = <<[kind |-> "refresh", t |-> spotify_token]>>

\* C37: refreshingRef is set exactly while a refresh request awaits its
\* answer: the step that ends a refresh, with a token or with a failure,
\* clears it, so that once the request is answered a later safeRefresh is
\* not turned away.
C37_MarkerCleared ==
  /\ refreshingRef <=> HasRefresh(pending)
  /\ RefreshFailed => ~refreshingRef
  /\ (SafeRefreshCalled /\ ~observed[1].busy) => observed[1].sent = 1

\* a refresh has failed, and the safeRefresh call made after it has sent
\* a request: the error of the failure is still shown while the new request
\* is pending
C37_Witness ==
  /\ page = "open"
  /\ SafeRefreshCalled
  /\ ~observed[1].busy
  /\ observed[1].sent = 1
  /\ refreshingRef
  /\ error # Null
  /\ error[1][1] = "Refresh error"

\* C38: between the steps of the page, the token state of SpotifyPage and
\* the record under spotify_token are the same: both absent, or the same
\* record.
C38_TokenMirrorsStore ==
  page = "open" => token = spotify_token

\* logout() has run while a refresh was pending, and the answer of that
\* refresh has since written the same new record to the store and to the
\* state
C38_Witness ==
  /\ page = "open"
  /\ loggedOut
  /\ token # Null
  /\ token = spotify_token
  /\ token # Some(StoredToken)

\* the members of s that are the first with their id, in the order of s
FirstOfEachId(s) ==
  LET keep == {i \in DOMAIN s : \A j \in 1..(i - 1) : s[j].id # s[i].id}
  IN [k \in 1..Cardinality(keep) |->
        s[CHOOSE i \in keep : Cardinality({j \in keep : j <= i}) = k]]

\* the entries es from the most recently viewed to the least, entries viewed
\* at the same time in the order of es
NewestFirst(es) ==
  [k \in 1..Len(es) |->
     es[CHOOSE i \in DOMAIN es :
          Cardinality({j \in DOMAIN es :
                         \/ es[j].viewedAt > es[i].viewedAt
                         \/ es[j].viewedAt = es[i].viewedAt /\ j < i}) = k - 1]]

\* the tiles of the albums of the items that have an id and a cover
SpotifyListed(items) ==
  LET ok == SelectSeq(items, LAMBDA a : /\ a # Null
                                        /\ a[1].id # EmptyId
                                        /\ a[1].src \notin {EmptySrc, NullSrc})
  IN [i \in 1..Len(ok) |-> ok[i][1]]

\* the tiles of the entries es that pass the filters of cfg and have artwork
PlexListed(cfg, es) ==
  LET ok == SelectSeq(es, LAMBDA e : plexKeeps(cfg, e) /\ e.node.art = "url")
  IN [i \in 1..Len(ok) |-> buildTile(ok[i])]

\* the adapter has resolved with a batch
BatchReturned == applied # Null /\ ~applied[1].threw
\* the service has answered the adapter's request with a list
Served == applied[1].asked /\ applied[1].status = 200

\* at most take tiles, each with an id and a src, no id twice
BatchShape(out, take) ==
  /\ Len(out) <= take
  /\ \A i \in DOMAIN out : out[i].id # EmptyId /\ out[i].src \notin {EmptySrc, NullSrc}
  /\ \A i, j \in DOMAIN out : out[i].id = out[j].id => i = j

\* C39 as stated: a batch of either adapter has at most take tiles with
\* non-empty id and src and distinct ids, and they are the first take
\* distinct ids in the order in which the service listed them.
C39_ServiceOrder ==
  BatchReturned =>
    /\ BatchShape(applied[1].out, applied[1].take)
    /\ applied[1].out =
         IF ~Served THEN << >>
         ELSE IF applied[1].adapter = "spotify"
           THEN Take(FirstOfEachId(SpotifyListed(applied[1].items)), applied[1].take)
           ELSE Take(FirstOfEachId(PlexListed(applied[1].cfg,
                                              parseHistoryUnsorted(applied[1].nodes))),
                     applied[1].take)

\* C39: a batch of either adapter has at most take tiles with non-empty id
\* and src and distinct ids; the Spotify adapter keeps the first take
\* distinct ids in the order of the service's list, the Plex adapter the
\* first take distinct ids from the most recently viewed entry on, whatever
\* the order of the service's list.
C39_AdapterBatch ==
  BatchReturned =>
    /\ BatchShape(applied[1].out, applied[1].take)
    /\ applied[1].out =
         IF ~Served THEN << >>
         ELSE IF applied[1].adapter = "spotify"
           THEN Take(FirstOfEachId(SpotifyListed(applied[1].items)), applied[1].take)
           ELSE Take(FirstOfEachId(PlexListed(applied[1].cfg,
                                              NewestFirst(parseHistoryUnsorted(applied[1].nodes)))),
                     applied[1].take)

\* the Plex adapter has returned a full batch from a history that lists an
\* older entry before a newer one of another id and names one id twice: the
\* batch starts with the newer entry
C39_Witness ==
  /\ BatchReturned
  /\ applied[1].adapter = "plex"
  /\ Served
  /\ applied[1].cfg.mediaKind = "music"
  /\ Len(applied[1].nodes) = MaxItems
  /\ Len(applied[1].out) = applied[1].take
  /\ applied[1].nodes[1].viewedAt < applied[1].nodes[2].viewedAt
  /\ applied[1].nodes[1].key = Some(1)
  /\ applied[1].nodes[2].key = Some(2)
  /\ applied[1].nodes[3].key = Some(2)
  /\ applied[1].out[1].id = AlbumId(2)
  /\ applied[1].out[2].id = AlbumId(1)

====
